---- MODULE Spec2Model ----
(***************************************************************************)
(* Configuration resolution of the runner package (runner/config.go):      *)
(* initConfig = discovery or explicit load, merge with defaults,           *)
(* preprocess (working-directory override, root expansion, exclude-dir     *)
(* cleaning, platform adaptation, binary path resolution).                 *)
(*                                                                         *)
(* A Go string that is a path is a sequence of tokens: a token is a        *)
(* separator ("/" or "\\"), a volume ("C:"), "~", ".", "..", an extension  *)
(* (".exe") or a name chunk.  The empty string is <<>>.  Other strings     *)
(* (commands, colour tags, file names of logs) are TLA+ strings.           *)
(* A *config pointer is <<>> (nil) or <<c>>.                               *)
(***************************************************************************)
EXTENDS Integers, Sequences, FiniteSets, TLC

VARIABLES
    env,      \* process environment at start: goos, air_wd, HOME, start directory
    fs,       \* the configuration files on disk: [dir, files]
    path,     \* the argument of initConfig
    pc,       \* "start" before initConfig is called, "done" after it returned
    cwd,      \* the process working directory (os.Getwd / os.Chdir)
    cwdOk,    \* whether os.Getwd succeeds
    cfg,      \* initConfig's first result (*config)
    err,      \* initConfig's second result
    loaded,   \* the *config of the load step (lines 63-73)
    loadErr,  \* the error of the load step
    merged,   \* the *config after mergo.Merge (line 74), nil when not reached
    probes,   \* the paths readConfig was called with, in call order
    stdout    \* the lines printed

vars == <<env, fs, path, pc, cwd, cwdOk, cfg, err, loaded, loadErr, merged, probes, stdout>>

\* Longest build.exclude_dir list a sample configuration file holds.
MaxExcludeDirs == 2

----------------------------------------------------------------------------
\* Constants of the package (lines 15-20) and of the runtime.

dftTOML == ".air.toml"
dftYAML == ".air.yaml"
dftConf == ".air.conf"
PlatformWindows == "windows"
GOOS == {"linux", PlatformWindows}

NoErr == "nil"
ErrReadConfig == "error read config"
ErrParseConfig == "error parse config"
ErrGetwd == "getwd"
ErrChdir == "chdir"
ErrHome == "home"
ErrMerge == "mergo: nil arguments"

Nil == <<>>
Ptr(c) == <<c>>
Deref(p) == p[1]

DeprecationNotice == ".air.conf will be deprecated soon, recommend using .air.toml."

----------------------------------------------------------------------------
\* path/filepath

IsPathSeparator(goos, t) == t = "/" \/ (goos = PlatformWindows /\ t = "\\")

Separator(goos) == IF goos = PlatformWindows THEN "\\" ELSE "/"

VolumeNameLen(goos, p) ==
    IF goos = PlatformWindows /\ Len(p) > 0 /\ p[1] = "C:" THEN 1 ELSE 0

IsRooted(goos, p) ==
    LET v == VolumeNameLen(goos, p)
    IN  Len(p) > v /\ IsPathSeparator(goos, p[v + 1])

IsAbs(goos, p) ==
    IF goos = PlatformWindows
    THEN VolumeNameLen(goos, p) = 1 /\ IsRooted(goos, p)
    ELSE Len(p) > 0 /\ p[1] = "/"

\* The elements of p between separators (strings.Split on the separator).
RECURSIVE Segments(_, _)
Segments(goos, p) ==
    IF p = <<>> THEN << <<>> >>
    ELSE LET rest == Segments(goos, Tail(p))
         IN  IF IsPathSeparator(goos, Head(p))
             THEN << <<>> >> \o rest
             ELSE << <<Head(p)>> \o Head(rest) >> \o Tail(rest)

\* The pass of Clean over the elements: drop empty and dot, resolve dot-dot.
RECURSIVE Resolve(_, _, _)
Resolve(segs, acc, rooted) ==
    IF segs = <<>> THEN acc
    ELSE LET s == Head(segs)
         IN  IF s = <<>> \/ s = <<".">>
             THEN Resolve(Tail(segs), acc, rooted)
             ELSE IF s = <<"..">>
             THEN IF Len(acc) > 0 /\ acc[Len(acc)] # <<"..">>
                  THEN Resolve(Tail(segs), SubSeq(acc, 1, Len(acc) - 1), rooted)
                  ELSE IF rooted
                  THEN Resolve(Tail(segs), acc, rooted)
                  ELSE Resolve(Tail(segs), Append(acc, s), rooted)
             ELSE Resolve(Tail(segs), Append(acc, s), rooted)

RECURSIVE JoinSegs(_, _)
JoinSegs(sep, segs) ==
    IF segs = <<>> THEN <<>>
    ELSE IF Len(segs) = 1 THEN segs[1]
    ELSE segs[1] \o <<sep>> \o JoinSegs(sep, Tail(segs))

Volume(goos, p) == SubSeq(p, 1, VolumeNameLen(goos, p))

\* The output of Clean from the resolved elements.
CleanOut(goos, p, out) ==
    IF IsRooted(goos, p) THEN Volume(goos, p) \o <<Separator(goos)>> \o out
    ELSE IF out = <<>> THEN Volume(goos, p) \o <<".">>
    ELSE Volume(goos, p) \o out

\* filepath.Clean
Clean(goos, p) ==
    CleanOut(goos, p,
             JoinSegs(Separator(goos),
                      Resolve(Segments(goos, SubSeq(p, VolumeNameLen(goos, p) + 1, Len(p))),
                              <<>>, IsRooted(goos, p))))

\* filepath.Join of two elements: the non-empty ones, separated, cleaned.
Join(goos, a, b) ==
    IF a = <<>> /\ b = <<>> THEN <<>>
    ELSE Clean(goos, IF a = <<>> THEN b
                     ELSE IF b = <<>> THEN a
                     ELSE a \o <<Separator(goos)>> \o b)

\* filepath.Abs in a process whose working directory is wd (Getwd works iff wdOk):
\* an absolute path is cleaned, any other path is joined to the working
\* directory (a rooted path without volume to the volume of it).
Abs(goos, wdOk, wd, p) ==
    IF ~IsAbs(goos, p) /\ ~wdOk THEN [v |-> <<>>, err |-> ErrGetwd]
    ELSE [v |-> Clean(goos, IF IsAbs(goos, p) THEN p
                            ELSE IF IsRooted(goos, p) THEN Volume(goos, wd) \o p
                            ELSE wd \o <<Separator(goos)>> \o p),
          err |-> NoErr]

----------------------------------------------------------------------------
\* Helpers of the runner package that preprocess calls, as the design
\* document describes them.

\* expandPath: a leading home shorthand is replaced by HOME, any other path is
\* resolved to an absolute path; fails when HOME or the working directory
\* cannot be resolved.
expandPath(goos, home, wdOk, wd, p) ==
    IF Len(p) > 0 /\ p[1] = "~" /\ (Len(p) = 1 \/ IsPathSeparator(goos, p[2]))
    THEN IF home = <<>> THEN [v |-> <<>>, err |-> ErrHome]
         ELSE [v |-> Clean(goos, home \o SubSeq(p, 2, Len(p))), err |-> NoErr]
    ELSE Abs(goos, wdOk, wd, p)

\* cleanPath: the canonical form of a path.
cleanPath(goos, p) == Clean(goos, p)

\* adaptToVariousPlatforms: on Windows the binary gets the executable extension.
adaptToVariousPlatforms(goos, c) ==
    IF goos = PlatformWindows /\ c.Build.Bin # <<>>
       /\ c.Build.Bin[Len(c.Build.Bin)] # ".exe"
    THEN [c EXCEPT !.Build.Bin = @ \o <<".exe">>]
    ELSE c

----------------------------------------------------------------------------
\* The types (lines 22-60): the zero value of config.

ZeroBuild ==
    [Cmd |-> "", Bin |-> <<>>, FullBin |-> <<>>, Log |-> "",
     IncludeExt |-> <<>>, ExcludeDir |-> <<>>, IncludeDir |-> <<>>, ExcludeFile |-> <<>>,
     Delay |-> 0, StopOnError |-> FALSE, SendInterrupt |-> FALSE, KillDelay |-> 0]

ZeroColor == [Main |-> "", Watcher |-> "", Build |-> "", Runner |-> "", App |-> ""]

ZeroConfig ==
    [Root |-> <<>>, TmpDir |-> "", Build |-> ZeroBuild, Color |-> ZeroColor,
     Log |-> [AddTime |-> FALSE], Misc |-> [CleanOnExit |-> FALSE]]

\* A build record whose stop_on_error and delay were left out.
defaultBuildUnset(goos) ==
    LET build == [ZeroBuild EXCEPT
                    !.Cmd = "go build -o ./tmp/main .",
                    !.Bin = <<".", "/", "tmp", "/", "main">>,
                    !.Log = "build-errors.log",
                    !.IncludeExt = <<"go", "tpl", "tmpl", "html">>,
                    !.ExcludeDir = << <<"assets">>, <<"tmp">>, <<"vendor">> >>]
    IN  IF goos = PlatformWindows
        THEN [build EXCEPT !.Bin = <<"tmp", "\\", "main", ".exe">>,
                           !.Cmd = "go build -o ./tmp/main.exe ."]
        ELSE build

\* The build record of defaultConfig (lines 114-126)
defaultBuild(goos) ==
    LET build == [ZeroBuild EXCEPT
                    !.Cmd = "go build -o ./tmp/main .",
                    !.Bin = <<".", "/", "tmp", "/", "main">>,
                    !.Log = "build-errors.log",
                    !.IncludeExt = <<"go", "tpl", "tmpl", "html">>,
                    !.ExcludeDir = << <<"assets">>, <<"tmp">>, <<"vendor">> >>,
                    !.Delay = 1000,
                    !.StopOnError = TRUE]
    IN  IF goos = PlatformWindows
        THEN [build EXCEPT !.Bin = <<"tmp", "\\", "main", ".exe">>,
                           !.Cmd = "go build -o ./tmp/main.exe ."]
        ELSE build

\* defaultConfig (lines 113-147)
defaultConfig(goos) ==
    LET build == defaultBuild(goos)
        log   == [AddTime |-> FALSE]
        color == [ZeroColor EXCEPT !.Main = "magenta", !.Watcher = "cyan",
                                   !.Build = "yellow", !.Runner = "green"]
        misc  == [CleanOnExit |-> FALSE]
    IN  [Root |-> <<".">>, TmpDir |-> "tmp", Build |-> build, Color |-> color,
         Log |-> log, Misc |-> misc]

----------------------------------------------------------------------------
\* mergo.Merge(dst, src) without overwrite (line 74): a field of dst that holds
\* its zero value takes the field of src, structs are merged field by field.

MergeString(d, s) == IF d = "" THEN s ELSE d
MergeSlice(d, s) == IF Len(d) = 0 THEN s ELSE d
MergeInt(d, s) == IF d = 0 THEN s ELSE d
MergeBool(d, s) == IF d = FALSE THEN s ELSE d

MergeBuild(d, s) ==
    [Cmd           |-> MergeString(d.Cmd, s.Cmd),
     Bin           |-> MergeSlice(d.Bin, s.Bin),
     FullBin       |-> MergeSlice(d.FullBin, s.FullBin),
     Log           |-> MergeString(d.Log, s.Log),
     IncludeExt    |-> MergeSlice(d.IncludeExt, s.IncludeExt),
     ExcludeDir    |-> MergeSlice(d.ExcludeDir, s.ExcludeDir),
     IncludeDir    |-> MergeSlice(d.IncludeDir, s.IncludeDir),
     ExcludeFile   |-> MergeSlice(d.ExcludeFile, s.ExcludeFile),
     Delay         |-> MergeInt(d.Delay, s.Delay),
     StopOnError   |-> MergeBool(d.StopOnError, s.StopOnError),
     SendInterrupt |-> MergeBool(d.SendInterrupt, s.SendInterrupt),
     KillDelay     |-> MergeInt(d.KillDelay, s.KillDelay)]

MergeColor(d, s) ==
    [Main    |-> MergeString(d.Main, s.Main),
     Watcher |-> MergeString(d.Watcher, s.Watcher),
     Build   |-> MergeString(d.Build, s.Build),
     Runner  |-> MergeString(d.Runner, s.Runner),
     App     |-> MergeString(d.App, s.App)]

\* The merge of the whole struct, replacing a nested struct only as a whole.
MergeShallow(d, s) ==
    [Root   |-> MergeSlice(d.Root, s.Root),
     TmpDir |-> MergeString(d.TmpDir, s.TmpDir),
     Build  |-> IF d.Build = ZeroBuild THEN s.Build ELSE d.Build,
     Color  |-> IF d.Color = ZeroColor THEN s.Color ELSE d.Color,
     Log    |-> [AddTime |-> MergeBool(d.Log.AddTime, s.Log.AddTime)],
     Misc   |-> [CleanOnExit |-> MergeBool(d.Misc.CleanOnExit, s.Misc.CleanOnExit)]]

Merge(d, s) ==
    [Root   |-> MergeSlice(d.Root, s.Root),
     TmpDir |-> MergeString(d.TmpDir, s.TmpDir),
     Build  |-> MergeBuild(d.Build, s.Build),
     Color  |-> MergeColor(d.Color, s.Color),
     Log    |-> [AddTime |-> MergeBool(d.Log.AddTime, s.Log.AddTime)],
     Misc   |-> [CleanOnExit |-> MergeBool(d.Misc.CleanOnExit, s.Misc.CleanOnExit)]]

\* mergo.Merge fails on a nil destination.
MergeErr(dst) == IF dst = Nil THEN ErrMerge ELSE NoErr

----------------------------------------------------------------------------
\* The load step.  sys is the process state the code reads:
\* [goos, airWd, home, dirExists, cwd, cwdOk, fs].

\* The file an absolute path designates: the files are fs.files, in fs.dir.
fileAt(sys, a) ==
    IF \E n \in DOMAIN sys.fs.files : a = Join(sys.goos, sys.fs.dir, <<n>>)
    THEN sys.fs.files[CHOOSE n \in DOMAIN sys.fs.files : a = Join(sys.goos, sys.fs.dir, <<n>>)]
    ELSE [kind |-> "missing", cfg |-> ZeroConfig]

\* Lines 157-167: ReadInConfig fails on a missing or malformed file, Unmarshal
\* on a file of the wrong shape.
parseFile(f) ==
    IF f.kind = "ok" THEN [cfg |-> Ptr(f.cfg), err |-> NoErr]
    ELSE IF f.kind = "badtype" THEN [cfg |-> Nil, err |-> ErrParseConfig]
    ELSE [cfg |-> Nil, err |-> ErrReadConfig]

\* The file is opened at the path, resolved against the working directory.
openFile(sys, a) ==
    IF a.err # NoErr THEN [cfg |-> Nil, err |-> ErrReadConfig]
    ELSE parseFile(fileAt(sys, a.v))

\* readConfig (lines 149-168)
readConfig(sys, p) == openFile(sys, Abs(sys.goos, sys.cwdOk, sys.cwd, p))

\* Lines 109-110 of readConfByName, with the path it read noted.
readConfAt(sys, pth) == readConfig(sys, pth) @@ [probed |-> <<pth>>]

\* readConfByName (lines 98-111)
readConfByName(sys, name) ==
    IF sys.airWd = <<>> /\ ~sys.cwdOk
    THEN [cfg |-> Nil, err |-> ErrGetwd, probed |-> <<>>]
    ELSE readConfAt(sys, Join(sys.goos,
                              IF sys.airWd # <<>> THEN sys.airWd ELSE sys.cwd,
                              <<name>>))

TomlFirstNames == <<dftTOML, dftYAML, dftConf>>

\* The names defaultPathConfig ranges over (line 84).
CandidateNames == <<dftYAML, dftTOML, dftConf>>

\* The loop of defaultPathConfig (lines 84-95) from the names still to try;
\* probeStep is its body, r the result of readConfByName.
RECURSIVE probeNames(_, _, _, _)
RECURSIVE probeStep(_, _, _, _)
probeStep(sys, names, probed, r) ==
    IF r.err = NoErr
    THEN [cfg |-> r.cfg, err |-> NoErr, lastErr |-> NoErr, fell |-> FALSE,
          probes |-> probed \o r.probed,
          out |-> IF Head(names) = dftConf THEN <<DeprecationNotice>> ELSE <<>>]
    ELSE probeNames(sys, Tail(names), probed \o r.probed, r.err)

probeNames(sys, names, probed, lastErr) ==
    IF names = <<>>
    THEN [cfg |-> Ptr(defaultConfig(sys.goos)), err |-> NoErr, lastErr |-> lastErr,
          fell |-> TRUE, probes |-> probed, out |-> <<>>]
    ELSE probeStep(sys, names, probed, readConfByName(sys, Head(names)))

\* What defaultPathConfig returns of the loop.
discoveryResult(r) == [cfg |-> r.cfg, err |-> r.err, probes |-> r.probes, out |-> r.out]

\* A result that reports the last candidate's error when none parsed.
strictResult(r) ==
    IF r.fell /\ r.lastErr # NoErr
    THEN [cfg |-> Nil, err |-> r.lastErr, probes |-> r.probes, out |-> r.out]
    ELSE discoveryResult(r)

defaultPathConfigStrict(sys) == strictResult(probeNames(sys, CandidateNames, <<>>, NoErr))

\* defaultPathConfig (lines 82-96)
defaultPathConfig(sys) == discoveryResult(probeNames(sys, CandidateNames, <<>>, NoErr))

\* Lines 173-177: the defaults go with the error of a failed read.
orDefault(dftCfg, r) ==
    IF r.err # NoErr THEN [cfg |-> Ptr(dftCfg), err |-> r.err]
    ELSE [cfg |-> r.cfg, err |-> NoErr]

\* readConfigOrDefault (lines 170-178)
readConfigOrDefault(sys, p) == orDefault(defaultConfig(sys.goos), readConfig(sys, p))

----------------------------------------------------------------------------
\* preprocess (lines 180-212), step by step.  Each step takes the process
\* state and the config and yields [cfg, err, cwd, cwdOk].

\* os.Chdir(dir) succeeds when the directory exists and can be resolved.
ChdirOk(sys, dir) == sys.dirExists /\ (IsAbs(sys.goos, dir) \/ sys.cwdOk)

\* An override that goes on after a failed change of directory.
overrideWdLenient(sys, c) ==
    IF sys.airWd # <<>>
    THEN IF ~ChdirOk(sys, sys.airWd)
         THEN [cfg |-> [c EXCEPT !.Root = sys.airWd], err |-> NoErr,
               cwd |-> sys.cwd, cwdOk |-> sys.cwdOk]
         ELSE [cfg |-> [c EXCEPT !.Root = sys.airWd], err |-> NoErr,
               cwd |-> Abs(sys.goos, sys.cwdOk, sys.cwd, sys.airWd).v, cwdOk |-> TRUE]
    ELSE [cfg |-> c, err |-> NoErr, cwd |-> sys.cwd, cwdOk |-> sys.cwdOk]

\* Lines 182-188: the working-directory override.
overrideWd(sys, c) ==
    IF sys.airWd # <<>>
    THEN IF ~ChdirOk(sys, sys.airWd)
         THEN [cfg |-> c, err |-> ErrChdir, cwd |-> sys.cwd, cwdOk |-> sys.cwdOk]
         ELSE [cfg |-> [c EXCEPT !.Root = sys.airWd], err |-> NoErr,
               cwd |-> Abs(sys.goos, sys.cwdOk, sys.cwd, sys.airWd).v, cwdOk |-> TRUE]
    ELSE [cfg |-> c, err |-> NoErr, cwd |-> sys.cwd, cwdOk |-> sys.cwdOk]

\* Lines 189-195: root is expanded and assigned, tmp_dir is defaulted, and
\* only then is the error of the expansion returned.
withRoot(c, e) ==
    [cfg |-> [c EXCEPT !.Root = e.v, !.TmpDir = IF @ = "" THEN "tmp" ELSE @],
     err |-> e.err]

expandRoot(sys, c) ==
    withRoot(c, expandPath(sys.goos, sys.home, sys.cwdOk, sys.cwd, c.Root))

\* A loop that leaves the entries as they are.
cleanExcludeDirSkipped(goos, c) == c

\* Lines 196-199 and 203: every exclude_dir entry is cleaned in place.
cleanExcludeDir(goos, c) ==
    [c EXCEPT !.Build.ExcludeDir = [i \in DOMAIN @ |-> cleanPath(goos, @[i])]]

\* Line 210: bin and the error of its conversion.
withBin(c, a) == [cfg |-> [c EXCEPT !.Build.Bin = a.v], err |-> a.err]

\* A resolution that ignores full_bin.
resolveBinIgnoringFullBin(sys, c) ==
    withBin(c, Abs(sys.goos, sys.cwdOk, sys.cwd, c.Build.Bin))

\* A resolution of a relative bin against root instead of the working directory.
resolveBinAgainstRoot(sys, c) ==
    IF Len(c.Build.FullBin) > 0
    THEN [cfg |-> [c EXCEPT !.Build.Bin = c.Build.FullBin], err |-> NoErr]
    ELSE withBin(c, Abs(sys.goos, TRUE, c.Root, c.Build.Bin))

\* Lines 204-211: full_bin replaces bin, otherwise bin is made absolute.
resolveBin(sys, c) ==
    IF Len(c.Build.FullBin) > 0
    THEN [cfg |-> [c EXCEPT !.Build.Bin = c.Build.FullBin], err |-> NoErr]
    ELSE withBin(c, Abs(sys.goos, sys.cwdOk, sys.cwd, c.Build.Bin))

\* The working directory preprocess leaves behind goes with its result.
withCwd(o, r) == [cfg |-> r.cfg, err |-> r.err, cwd |-> o.cwd, cwdOk |-> o.cwdOk]

\* Lines 193-211, x the result of the root expansion.
afterExpand(sys, x) ==
    IF x.err # NoErr THEN x
    ELSE resolveBin(sys, adaptToVariousPlatforms(sys.goos, cleanExcludeDir(sys.goos, x.cfg)))

\* Lines 189-211, o the result of the override: the process is in o.cwd.
afterOverride(sys, o) ==
    IF o.err # NoErr THEN o
    ELSE withCwd(o, afterExpand([sys EXCEPT !.cwd = o.cwd, !.cwdOk = o.cwdOk],
                                expandRoot([sys EXCEPT !.cwd = o.cwd, !.cwdOk = o.cwdOk], o.cfg)))

\* preprocess (lines 180-212)
preprocess(sys, c) == afterOverride(sys, overrideWd(sys, c))

\* What initConfig returns when it stops before the merge (lines 66, 71, 76).
stopped(sys, ld, e) ==
    [cfg |-> Nil, err |-> e, loaded |-> ld.cfg, loadErr |-> ld.err, merged |-> Nil,
     probes |-> ld.probes, out |-> ld.out, cwd |-> sys.cwd, cwdOk |-> sys.cwdOk]

\* Lines 78-79: the merged config goes through preprocess, and is returned
\* with the error of it.
finished(ld, m, pp) ==
    [cfg |-> Ptr(pp.cfg), err |-> pp.err, loaded |-> ld.cfg, loadErr |-> ld.err,
     merged |-> Ptr(m), probes |-> ld.probes, out |-> ld.out,
     cwd |-> pp.cwd, cwdOk |-> pp.cwdOk]

afterMerge(sys, ld, m) == finished(ld, m, preprocess(sys, m))

\* Lines 65-79, ld the result of the load step.
afterLoad(sys, ld) ==
    IF ld.err # NoErr THEN stopped(sys, ld, ld.err)
    ELSE IF MergeErr(ld.cfg) # NoErr THEN stopped(sys, ld, MergeErr(ld.cfg))
    ELSE afterMerge(sys, ld, Merge(Deref(ld.cfg), defaultConfig(sys.goos)))

\* initConfig (lines 62-80): the load step, the merge, preprocess.
initConfig(sys, p) ==
    afterLoad(sys, IF p = <<>>
                   THEN defaultPathConfig(sys)
                   ELSE readConfigOrDefault(sys, p) @@ [probes |-> <<p>>, out |-> <<>>])

----------------------------------------------------------------------------
\* The inputs: host, environment, files on disk, the argument of initConfig.

StartDir(goos) == IF goos = PlatformWindows THEN <<"C:", "\\", "w">> ELSE <<"/", "w">>
HomeDir(goos) ==
    IF goos = PlatformWindows THEN <<"C:", "\\", "Users", "\\", "u">>
    ELSE <<"/", "home", "/", "u">>

\* Values of the air_wd variable: unset, absolute, relative, the directory itself.
AirWds == {<<>>, <<"/", "srv">>, <<"sub">>, <<".">>}

SampleRoots == {<<>>, <<".">>, <<"/", "other">>, <<"sub">>, <<"~", "/", "proj">>}
SampleBins == {<<>>, <<".", "/", "bin", "/", "app">>, <<"/", "abs", "/", "app">>}
SampleFullBins == {<<>>, <<"/", "custom", "/", "path">>}
SampleDirs == {<<".", "/", "vendor", "/">>, <<"node_modules">>}

RECURSIVE SeqsUpTo(_, _)
SeqsUpTo(S, n) ==
    IF n = 0 THEN {<<>>}
    ELSE LET shorter == SeqsUpTo(S, n - 1)
         IN  shorter \cup {Append(q, x) : q \in shorter, x \in S}

SampleExcludeDirs == SeqsUpTo(SampleDirs, MaxExcludeDirs)

\* A file that sets root, bin and full_bin and nothing else.
Sparse(root, bin, fullBin) ==
    [ZeroConfig EXCEPT !.Root = root, !.Build.Bin = bin, !.Build.FullBin = fullBin]

\* A file that sets only the build command besides.
CmdOnly(root, bin, fullBin) ==
    [Sparse(root, bin, fullBin) EXCEPT !.Build.Cmd = "make"]

\* A file that sets every field.
Full(root, bin, fullBin, ex) ==
    [Root |-> root, TmpDir |-> "build",
     Build |-> [Cmd |-> "make", Bin |-> bin, FullBin |-> fullBin, Log |-> "err.log",
                IncludeExt |-> <<"go">>, ExcludeDir |-> ex, IncludeDir |-> <<"src">>,
                ExcludeFile |-> <<"x_test.go">>, Delay |-> 500, StopOnError |-> TRUE,
                SendInterrupt |-> TRUE, KillDelay |-> 5],
     Color |-> [Main |-> "red", Watcher |-> "blue", Build |-> "white",
                Runner |-> "black", App |-> "gray"],
     Log |-> [AddTime |-> TRUE], Misc |-> [CleanOnExit |-> TRUE]]

ExplicitContents ==
    UNION {{Sparse(r, b, f), CmdOnly(r, b, f)} \cup {Full(r, b, f, ex) : ex \in SampleExcludeDirs} :
           r \in SampleRoots, b \in SampleBins, f \in SampleFullBins}

DiscoveryContents ==
    {Sparse(<<>>, <<>>, <<>>),
     CmdOnly(<<"/", "other">>, <<>>, <<>>),
     Full(<<"sub">>, <<".", "/", "bin", "/", "app">>, <<"/", "custom", "/", "path">>,
          << <<".", "/", "vendor", "/">> >>),
     Sparse(<<"~", "/", "proj">>, <<"/", "abs", "/", "app">>, <<>>)}

Missing == [kind |-> "missing", cfg |-> ZeroConfig]
Failures == {Missing, [kind |-> "malformed", cfg |-> ZeroConfig],
             [kind |-> "badtype", cfg |-> ZeroConfig]}
Parsed(S) == {[kind |-> "ok", cfg |-> c] : c \in S}

ExplicitName == "custom.toml"
FileNames == {dftYAML, dftTOML, dftConf, ExplicitName}

Envs ==
    {e \in [goos : GOOS, airWd : AirWds, home : {<<>>, <<"home">>},
            dirExists : BOOLEAN, wdOk : BOOLEAN] :
        e.airWd = <<>> => e.dirExists}

Home(e) == IF e.home = <<>> THEN <<>> ELSE HomeDir(e.goos)

\* The directories the files may be in: the start directory or the one air_wd names.
FileDirs(e) ==
    {StartDir(e.goos)} \cup
    (IF e.airWd = <<>> THEN {}
     ELSE {Abs(e.goos, TRUE, StartDir(e.goos), e.airWd).v})

\* The explicit paths: relative to the working directory, or absolute.
ExplicitPaths(e) ==
    {<<ExplicitName>>, StartDir(e.goos) \o <<Separator(e.goos), ExplicitName>>}

Sys == [goos |-> env.goos, airWd |-> env.airWd, home |-> Home(env),
        dirExists |-> env.dirExists, cwd |-> cwd, cwdOk |-> cwdOk, fs |-> fs]

Init ==
    /\ env \in Envs
    /\ \/ /\ path = <<>>
          /\ \E d \in FileDirs(env) :
             \E y, t, c \in Failures \cup Parsed(DiscoveryContents) :
                fs = [dir |-> d,
                      files |-> [n \in FileNames |->
                                   IF n = dftYAML THEN y
                                   ELSE IF n = dftTOML THEN t
                                   ELSE IF n = dftConf THEN c ELSE Missing]]
       \/ /\ path \in ExplicitPaths(env)
          /\ \E x \in Failures \cup Parsed(ExplicitContents) :
                fs = [dir |-> StartDir(env.goos),
                      files |-> [n \in FileNames |-> IF n = ExplicitName THEN x ELSE Missing]]
    /\ pc = "start"
    /\ cwd = StartDir(env.goos)
    /\ cwdOk = env.wdOk
    /\ cfg = Nil
    /\ err = NoErr
    /\ loaded = Nil
    /\ loadErr = NoErr
    /\ merged = Nil
    /\ probes = <<>>
    /\ stdout = <<>>

Return(r) ==
    /\ pc' = "done"
    /\ cfg' = r.cfg
    /\ err' = r.err
    /\ loaded' = r.loaded
    /\ loadErr' = r.loadErr
    /\ merged' = r.merged
    /\ probes' = r.probes
    /\ stdout' = stdout \o r.out
    /\ cwd' = r.cwd
    /\ cwdOk' = r.cwdOk
    /\ UNCHANGED <<env, fs, path>>

\* initConfig("") : discovery.
InitConfigDiscover ==
    /\ pc = "start"
    /\ path = <<>>
    /\ Return(initConfig(Sys, path))

\* initConfig(path) with an explicit path.
InitConfigExplicit ==
    /\ pc = "start"
    /\ path # <<>>
    /\ Return(initConfig(Sys, path))

Next == InitConfigDiscover \/ InitConfigExplicit

Spec == Init /\ [][Next]_vars

----------------------------------------------------------------------------
\* Vocabulary of the properties.

Done == pc = "done"

\* The process state initConfig started from.
Sys0 == [Sys EXCEPT !.cwd = StartDir(env.goos), !.cwdOk = env.wdOk]

\* Candidate n parses: reading it by name, from the start state, gives no error.
Parses(n) == readConfByName(Sys0, n).err = NoErr

Dft == defaultConfig(env.goos)

\* The change to the override directory fails.
ChdirFails == env.airWd # <<>> /\ ~(env.dirExists /\ (IsAbs(env.goos, env.airWd) \/ env.wdOk))

\* The bin that reaches the binary path resolution, when preprocess gets there.
AdaptedBin == adaptToVariousPlatforms(env.goos, Deref(merged)).Build.Bin

\* A path is relative: it has neither a root nor a volume.
IsRelative(goos, p) == p # <<>> /\ ~IsAbs(goos, p) /\ ~IsRooted(goos, p)

\* Canonical form, stated on the elements: native separators only, no empty
\* element, no dot element, dot-dot only in front of a relative path.
Canonical(goos, p) ==
    LET v      == VolumeNameLen(goos, p)
        body   == SubSeq(p, v + 1, Len(p))
        rooted == IsRooted(goos, p)
        segs   == Segments(goos, body)
    IN  /\ \A i \in 1..Len(p) : IsPathSeparator(goos, p[i]) => p[i] = Separator(goos)
        /\ \/ body = <<".">>
           \/ body = <<Separator(goos)>>
           \/ /\ body # <<>>
              /\ \A i \in 1..Len(segs) :
                    /\ segs[i] = <<>> => (i = 1 /\ rooted)
                    /\ segs[i] # <<".">>
                    /\ segs[i] = <<"..">> =>
                          (~rooted /\ \A j \in 1..(i - 1) : segs[j] = <<"..">>)

----------------------------------------------------------------------------
\* C1: when initConfig is called with a non-empty path and loading that file
\* fails, the caller receives a non-nil error and a non-nil configuration
\* equal to the defaults.
C1_ExplicitLoadFailureYieldsDefaults ==
    (Done /\ path # <<>> /\ loadErr # NoErr)
        => (err # NoErr /\ cfg # Nil /\ cfg = Ptr(Dft))

\* C2: after the merge step every field, the nested records included, holds
\* the loaded value when that is non-zero and the default value when it is zero.
C2_MergePrecedence ==
    (Done /\ merged # Nil) =>
        LET l == Deref(loaded)
            d == Dft
            m == Deref(merged)
        IN  /\ m.Root = (IF l.Root = <<>> THEN d.Root ELSE l.Root)
            /\ m.TmpDir = (IF l.TmpDir = "" THEN d.TmpDir ELSE l.TmpDir)
            /\ \A f \in {"Cmd", "Log"} :
                  m.Build[f] = (IF l.Build[f] = "" THEN d.Build[f] ELSE l.Build[f])
            /\ \A f \in {"Bin", "FullBin", "IncludeExt", "ExcludeDir", "IncludeDir", "ExcludeFile"} :
                  m.Build[f] = (IF l.Build[f] = <<>> THEN d.Build[f] ELSE l.Build[f])
            /\ \A f \in {"Delay", "KillDelay"} :
                  m.Build[f] = (IF l.Build[f] = 0 THEN d.Build[f] ELSE l.Build[f])
            /\ \A f \in {"StopOnError", "SendInterrupt"} :
                  m.Build[f] = (IF l.Build[f] = FALSE THEN d.Build[f] ELSE l.Build[f])
            /\ \A f \in {"Main", "Watcher", "Build", "Runner", "App"} :
                  m.Color[f] = (IF l.Color[f] = "" THEN d.Color[f] ELSE l.Color[f])
            /\ m.Log.AddTime = (IF l.Log.AddTime = FALSE THEN d.Log.AddTime ELSE l.Log.AddTime)
            /\ m.Misc.CleanOnExit =
                  (IF l.Misc.CleanOnExit = FALSE THEN d.Misc.CleanOnExit ELSE l.Misc.CleanOnExit)

\* A file that sets build.cmd and leaves the rest of build unset was merged.
C2_Witness ==
    /\ Done /\ merged # Nil /\ loadErr = NoErr
    /\ Deref(loaded).Build.Cmd = "make"
    /\ Deref(loaded).Build.Delay = 0
    /\ Deref(loaded).Build.StopOnError = FALSE
    /\ Deref(merged).Build.Cmd = "make"
    /\ Deref(merged).Build.Delay = 1000
    /\ Deref(merged).Build.StopOnError = TRUE

\* C3: whenever the loaded build.full_bin is non-empty and initConfig succeeds,
\* the final build.bin is exactly that full_bin, whatever build.bin was.
C3_FullBinShortCircuit ==
    (Done /\ err = NoErr /\ Deref(loaded).Build.FullBin # <<>>)
        => Deref(cfg).Build.Bin = Deref(loaded).Build.FullBin

\* full_bin and a different bin were both loaded and initConfig succeeded.
C3_Witness ==
    /\ Done /\ err = NoErr
    /\ Deref(loaded).Build.FullBin # <<>>
    /\ Deref(loaded).Build.Bin # <<>>
    /\ Deref(loaded).Build.Bin # Deref(loaded).Build.FullBin
    /\ Deref(cfg).Build.Bin = Deref(loaded).Build.FullBin

C5_GracefulFallback ==
    (Done /\ path = <<>>) =>
        /\ loadErr = NoErr
        /\ loaded # Nil
        /\ (\A n \in {dftYAML, dftTOML, dftConf} : ~Parses(n)) => loaded = Ptr(Dft)

\* All three candidates are there and none parses; discovery fell back.
C5_Witness ==
    /\ Done /\ path = <<>>
    /\ fs.files[dftYAML].kind = "malformed"
    /\ fs.files[dftTOML].kind = "badtype"
    /\ fs.files[dftConf].kind = "malformed"
    /\ Len(probes) = 3
    /\ loadErr = NoErr
    /\ loaded = Ptr(Dft)

\* C6: whenever initConfig returns without error, root is an absolute path,
\* build.bin is an absolute path unless build.full_bin is non-empty (and then
\* equals it), tmp_dir is not empty and every exclude_dir entry is canonical.
C6_PostResolution ==
    (Done /\ err = NoErr) =>
        LET c == Deref(cfg)
        IN  /\ IsAbs(env.goos, c.Root)
            /\ c.Build.FullBin = <<>> => IsAbs(env.goos, c.Build.Bin)
            /\ c.Build.FullBin # <<>> => c.Build.Bin = c.Build.FullBin
            /\ c.TmpDir # ""
            /\ \A i \in 1..Len(c.Build.ExcludeDir) :
                  Canonical(env.goos, c.Build.ExcludeDir[i])

\* A relative root, a relative bin and an exclude_dir entry that is not
\* canonical were loaded, and initConfig succeeded.
C6_Witness ==
    /\ Done /\ err = NoErr
    /\ IsRelative(env.goos, Deref(loaded).Root)
    /\ IsRelative(env.goos, Deref(loaded).Build.Bin)
    /\ Deref(loaded).Build.FullBin = <<>>
    /\ \E i \in 1..Len(Deref(loaded).Build.ExcludeDir) :
          ~Canonical(env.goos, Deref(loaded).Build.ExcludeDir[i])
    /\ IsAbs(env.goos, Deref(cfg).Root)
    /\ IsAbs(env.goos, Deref(cfg).Build.Bin)

\* The fields of a configuration the defaults have to provide, the colour of
\* the app surface aside.
DefaultsProvided(d) ==
    /\ d.Root # <<>>
    /\ d.TmpDir = "tmp"
    /\ d.Build.Cmd # ""
    /\ d.Build.Bin # <<>>
    /\ d.Build.Log # ""
    /\ d.Build.IncludeExt # <<>>
    /\ d.Build.ExcludeDir # <<>>
    /\ d.Build.Delay = 1000
    /\ d.Build.StopOnError = TRUE
    /\ \A f \in {"Main", "Watcher", "Build", "Runner"} : d.Color[f] # ""

\* C7 as stated: the defaults have a non-zero value for every field that
\* matters, a colour tag for each of main, watcher, build, runner and app
\* included.
C7_DefaultsCompleteWithApp ==
    DefaultsProvided(Dft) /\ Dft.Color.App # ""

\* C7 as amended: the defaults have a non-zero value for root, tmp_dir, the
\* build fields and the colour tags of main, watcher, build and runner;
\* color.app is the empty string; every call yields the same value, so the
\* defaults discovery fell back to are unchanged by the merge with defaults.
C7_DefaultsComplete ==
    /\ DefaultsProvided(Dft)
    /\ Dft.Color.App = ""
    /\ (Done /\ path = <<>> /\ loaded = Ptr(Dft)) => merged = Ptr(Dft)
    /\ (Done /\ path # <<>> /\ loadErr # NoErr) => loaded = Ptr(Dft)

\* Discovery fell back to the defaults, and they went through the merge.
C7_Witness ==
    /\ Done /\ path = <<>>
    /\ \A n \in {dftYAML, dftTOML, dftConf} : ~Parses(n)
    /\ loaded = Ptr(Dft)
    /\ merged = Ptr(Dft)
    /\ Deref(merged).Color.App = ""

\* C8: when air_wd is set, absolute or relative, and initConfig succeeds, the
\* working directory is that directory and the final root is its absolute path.
C8_RootIsOverrideDirectory ==
    (Done /\ env.airWd # <<>> /\ err = NoErr) =>
        /\ cwd = Abs(env.goos, TRUE, StartDir(env.goos), env.airWd).v
        /\ Deref(cfg).Root = cwd

\* C9 as stated: with full_bin empty and a relative bin, the final bin is that
\* bin resolved against the final root.
C9_BinResolvedAgainstRoot ==
    (Done /\ err = NoErr /\ Deref(merged).Build.FullBin = <<>>
          /\ IsRelative(env.goos, AdaptedBin))
        => Deref(cfg).Build.Bin = Join(env.goos, Deref(cfg).Root, AdaptedBin)

\* C9 as amended: with full_bin empty and a relative bin, the final bin is that
\* bin resolved against the working directory the process has when preprocess
\* returns.
C9_BinResolvedAgainstCwd ==
    (Done /\ err = NoErr /\ Deref(merged).Build.FullBin = <<>>
          /\ IsRelative(env.goos, AdaptedBin))
        => Deref(cfg).Build.Bin = Join(env.goos, cwd, AdaptedBin)

\* A relative bin was resolved while root is another directory than the
\* working directory.
C9_Witness ==
    /\ Done /\ err = NoErr /\ env.airWd = <<>>
    /\ Deref(merged).Build.FullBin = <<>>
    /\ IsRelative(env.goos, AdaptedBin)
    /\ Deref(cfg).Root # cwd
    /\ Deref(cfg).Build.Bin = Join(env.goos, cwd, AdaptedBin)

\* The root preprocess expands, once the override has been applied.
RootToExpand == IF env.airWd # <<>> THEN env.airWd ELSE Deref(merged).Root

ExpandFails ==
    /\ merged # Nil /\ ~ChdirFails
    /\ expandPath(env.goos, Home(env), cwdOk, cwd, RootToExpand).err # NoErr

AbsFails ==
    /\ merged # Nil /\ ~ChdirFails /\ ~ExpandFails
    /\ Deref(merged).Build.FullBin = <<>>
    /\ Abs(env.goos, cwdOk, cwd, AdaptedBin).err # NoErr

\* C10: a failed change to the override directory, a failed expansion of root
\* and a failed conversion of bin each make initConfig return an error; after
\* a failed change of directory root, exclude_dir and bin are as merged; a
\* failed merge returns no configuration.
C10_FatalFinalizeErrors ==
    Done =>
        /\ (merged # Nil /\ ChdirFails) => (err # NoErr /\ cfg = merged /\ cwd = StartDir(env.goos))
        /\ ExpandFails => err # NoErr
        /\ AbsFails => err # NoErr
        /\ (loadErr = NoErr /\ MergeErr(loaded) # NoErr) => (cfg = Nil /\ err # NoErr)

\* The change of directory failed on a configuration whose exclude_dir is not
\* canonical and whose bin is relative.
C10_Witness ==
    /\ Done /\ merged # Nil /\ ChdirFails
    /\ err = ErrChdir
    /\ Deref(cfg).Root = Deref(merged).Root
    /\ \E i \in 1..Len(Deref(cfg).Build.ExcludeDir) :
          ~Canonical(env.goos, Deref(cfg).Build.ExcludeDir[i])
    /\ IsRelative(env.goos, Deref(cfg).Build.Bin)

\* The expansion of root failed.
C10_ExpandReached == Done /\ ExpandFails /\ err # NoErr

\* The conversion of bin failed.
C10_AbsReached == Done /\ AbsFails /\ err # NoErr

====
